---- MODULE Spec2Model ----
(***************************************************************************)
(* Calm Tornado Alert Speaker: the alert lifecycle engine.                 *)
(*                                                                         *)
(* index.js (speak, pollOnce, startPolling, shutdown, main),               *)
(* poller.js (fetchAlerts), alertProcessor.js (filterTornadoWarnings) and  *)
(* deduplication.js (loadSpokenAlerts, hasBeenSpoken, markAsSpoken).       *)
(*                                                                         *)
(* The program runs on the Node.js event loop.  A step of the model is one *)
(* piece of code that runs without the event loop getting control: from    *)
(* the completion of an awaited I/O operation (HTTP request, backoff       *)
(* delay, speech synthesis + playback, poll timer) to the start of the     *)
(* next one.  The for-loop of pollOnce is taken one warning at a time      *)
(* (pc = "loop"); a signal handler cannot run between these steps, since   *)
(* they are chained by resolved promises, so shutdown is enabled only      *)
(* where an I/O operation is in flight.                                    *)
(*                                                                         *)
(* Spec is one run of the process, SpecRetry its first poll cycle with any *)
(* number of failing requests, SpecRestart several runs on the same dedup  *)
(* file, and SpecDedup deduplication.js driven through its exports.        *)
(***************************************************************************)
EXTENDS Integers, Sequences, FiniteSets, TLC

\* ---------------------------------------------------------------- constants
MAX_RETRIES == 5
BASE_DELAY_MS == 5000
SPEECH_RATE_LIMIT_MS == 60000
POLL_INTERVAL_MS == 300000
DOCUMENTED_MAX_ATTEMPTS == 5

\* ------------------------------------------------------------------- bounds
MaxCycles == 2
MaxRuns == 2
MaxFeatures == 2
MaxFetchFailures == 1
StartTime == 1000000
MaxMarks == 3
MaxFilterInput == 3

\* ------------------------------------------------------- environment inputs
TARGET == "Tornado Warning"
Ids == {"a", "b"}

\* An entry of the feed: its id and its properties.event
Feature(i, e) == [id |-> i, event |-> e]
Features == {Feature(i, TARGET) : i \in Ids} \cup {Feature("a", "Tornado Watch")}

RECURSIVE SeqsUpTo(_, _)
SeqsUpTo(S, n) ==
    IF n = 0 THEN {<<>>}
    ELSE LET shorter == SeqsUpTo(S, n - 1)
         IN  shorter \cup {Append(s, x) : s \in {t \in shorter : Len(t) = n - 1}, x \in S}

\* The "features" arrays a successful response can carry
FeatureLists == SeqsUpTo(Features, MaxFeatures)

\* What f.properties?.event gives for an entry without properties or without
\* event, and for an entry whose event is null
Undefined == "#undefined"
Null == "#null"

\* The entries filterTornadoWarnings is applied to on its own
FilterEntries ==
    Features \cup {Feature("b", "tornado warning"), Feature("a", Undefined),
                   Feature("b", Null)}
FilterInputs == SeqsUpTo(FilterEntries, MaxFilterInput)

\* The body of a successful response: with a features array, or without the key
Body(fs) == [hasFeatures |-> TRUE, features |-> fs]
NoFeaturesKey == [hasFeatures |-> FALSE, features |-> <<>>]
Bodies == {Body(fs) : fs \in FeatureLists} \cup {NoFeaturesKey}

\* Outcome of one HTTP request of fetchAlerts
FetchOutcomes == {"network_error", "http_error", "ok"}

\* Outcome of synthesizeSpeech followed by playAudio
NotifierOutcomes == {"ok", "synth_fail", "play_fail"}

\* How long one synthesis + playback may take, and one HTTP request
NotifierDurations == {1000, SPEECH_RATE_LIMIT_MS}
RequestDurations == {1000}

STARTUP == "startup"

\* The warnings generateCalmMessage is applied to on its own: areaDesc and
\* expires are missing, null, empty or a string; of the strings given for
\* expires the first is a date the Date constructor parses
AreaDescs == {Undefined, Null, "", "Jefferson County, KY", "Hamilton County, OH"}
ValidTimes == {"2026-05-15T20:00:00Z"}
Expiries == {Undefined, Null, "", "not-a-date", "2026-13-45T99:00:00Z"} \cup ValidTimes
Alert(a, e) == [id |-> "a", event |-> TARGET, areaDesc |-> a, expires |-> e]
NoMessage == [area |-> "", expiresTime |-> <<>>]

\* process.env.ALERT_STATE: not set, or a string, written as the sequence of
\* its characters
Unset == <<"#unset">>
AlertStateEnvs == {Unset, <<>>, <<"K", "Y">>, <<"k", "y">>, <<"K", "y">>}

\* Content of the dedup file
DiskAbsent == [kind |-> "absent", ids |-> <<>>]
DiskCorrupt == [kind |-> "corrupt", ids |-> <<>>]
DiskNonArray == [kind |-> "nonarray", ids |-> <<>>]
DiskArray(s) == [kind |-> "array", ids |-> s]
\* An element of a stored array that is not a string (a number, an object ...),
\* written as a token no id of the feed is equal to
NonString == "#1"

InitialDisks ==
    {DiskAbsent, DiskCorrupt, DiskNonArray, DiskArray(<<"a">>), DiskArray(<<NonString>>)}

VARIABLES
    now,             \* Date.now(), on the clock described at Stopped
    run,             \* number of the process run
    pc,              \* where the run is:
                     \*   "start"          main not yet called
                     \*   "startup_speak"  Notifier call of the test phrase in flight
                     \*   "fetch"          HTTP request of fetchAlerts in flight
                     \*   "backoff"        backoff delay of fetchAlerts in flight
                     \*   "loop"           pollOnce between two warnings
                     \*   "speak"          Notifier call of a warning in flight
                     \*   "sleeping"       pollOnce returned
                     \*   "exited"         process.exit was called
    exitCode,        \* the status passed to process.exit, NoExit before
    lastSpeechTime,  \* index.js
    isShuttingDown,  \* index.js
    pollTimer,       \* index.js: "null", "pending" (armed) or "fired" (stale handle)
    spokenAlertIds,  \* deduplication.js: the Set, in insertion order
    disk,            \* the dedup file
    attempt,         \* fetchAlerts: the attempt parameter of the call in flight
    warnings,        \* pollOnce: the warnings the for-loop has still to handle
    \* ---- history, read by the properties only
    cycle,           \* poll cycles started in this run
    cyclesInFlight,  \* pollOnce calls started and not yet returned
    requests,        \* HTTP requests made by the fetch of this cycle
    failures,        \* failed requests of the fetch of this cycle
    delays,          \* backoff delays awaited by the fetch of this cycle
    fetchStatus,     \* "pending", "ok" or "exhausted"
    response,        \* body of the successful response of this cycle
    features,        \* what fetchAlerts returned in this cycle
    atCycleStart,    \* spokenAlertIds, disk and lastSpeechTime when the cycle started,
                     \* and the failed requests of the cycle before it
    handled,         \* ids that pollOnce passed to speak in this run
    notifierLog,     \* Notifier invocations of this run: id, start time, cycle,
                     \*   and whether the id was absent from spokenAlertIds
    notifierResult,  \* the last Notifier call that has ended: "ok" or "failed"
    speaking,        \* Notifier calls started and not yet ended
    notifiedBefore,  \* ids the Notifier was invoked for in earlier runs
    ioFailed,        \* a read or write of the dedup file has failed
    loadOk,          \* the loadSpokenAlerts of this process has read and parsed the file
    markLog,         \* the ids markAsSpoken was called with in this run, in order
    signal,          \* the termination signal received in this run
    alertStateEnv,   \* process.env.ALERT_STATE
    message,         \* what generateCalmMessage returned when it was called on its own
    queries          \* the query parameters of the requests of this cycle

vars == <<now, run, pc, exitCode, lastSpeechTime, isShuttingDown, pollTimer,
          spokenAlertIds, disk, attempt, warnings, cycle, cyclesInFlight,
          requests, failures, delays, fetchStatus, response, features,
          atCycleStart, handled, notifierLog, notifierResult, speaking,
          notifiedBefore,
          ioFailed, loadOk, markLog, signal, alertStateEnv, message, queries>>

gateVars == <<lastSpeechTime, notifierLog, notifierResult, speaking>>
dedupVars == <<spokenAlertIds, disk, ioFailed, loadOk, markLog>>
fetchVars == <<attempt, requests, failures, delays, fetchStatus, response, features,
               queries>>
cycleVars == <<cycle, cyclesInFlight, atCycleStart>>
runVars == <<run, exitCode, isShuttingDown, notifiedBefore, signal, alertStateEnv,
             message>>

Range(s) == {s[i] : i \in DOMAIN s}

\* ------------------------------------------------------- deduplication.js
RECURSIVE ToSet(_)
\* new Set(array): the elements in order of first occurrence
ToSet(s) ==
    IF s = <<>> THEN <<>>
    ELSE LET front == ToSet(SubSeq(s, 1, Len(s) - 1))
             last == s[Len(s)]
         IN  IF last \in Range(front) THEN front ELSE Append(front, last)

\* An add that does not look for the element
SetAdd_appends(set, id) == Append(set, id)

\* Set.prototype.add
SetAdd(set, id) == IF id \in Range(set) THEN set ELSE Append(set, id)

\* A lookup that never finds the id
hasBeenSpoken_never(set, id) == FALSE

hasBeenSpoken(set, id) == id \in Range(set)

\* Outcome of mkdirSync + writeFileSync: written, or failed with the file untouched
WriteOutcomes == {"ok", "fail"}

\* A save that appends the newest id to the ids of the file
saveSpokenAlerts_appendsNewest(set, file, w) ==
    IF w = "ok" THEN DiskArray(Append(file.ids, set[Len(set)])) ELSE file

\* A save that writes nothing but the newest id
saveSpokenAlerts_newestOnly(set, file, w) ==
    IF w = "ok" THEN DiskArray(<<set[Len(set)]>>) ELSE file

\* The dedup file after saveSpokenAlerts has run on the set
saveSpokenAlerts(set, file, w) ==
    IF w = "ok" THEN DiskArray(set) ELSE file

\* loadSpokenAlerts: readFileSync and JSON.parse have not thrown
Loads(file, readOk) == readOk /\ file.kind \in {"array", "nonarray"}

\* A load that adds the stored ids to the ids in memory
loadSpokenAlerts_merges(set, file, readOk) ==
    IF ~readOk \/ file.kind \in {"absent", "corrupt"} THEN set
    ELSE IF file.kind = "array" THEN ToSet(set \o file.ids) ELSE set

\* A load that takes the stored array even when readFileSync has thrown
loadSpokenAlerts_ignoresReadError(set, file, readOk) ==
    IF file.kind \in {"absent", "corrupt"} THEN set
    ELSE IF file.kind = "array" THEN ToSet(file.ids) ELSE <<>>

\* The in-memory set after loadSpokenAlerts has run
loadSpokenAlerts(set, file, readOk) ==
    IF ~readOk \/ file.kind \in {"absent", "corrupt"} THEN set
    ELSE IF file.kind = "array" THEN ToSet(file.ids) ELSE <<>>

\* A markAsSpoken that forgets the id when the write fails
markAsSpoken_rollsBack(id, w) ==
    /\ spokenAlertIds' = IF w = "ok" THEN SetAdd(spokenAlertIds, id) ELSE spokenAlertIds
    /\ disk' = saveSpokenAlerts(spokenAlertIds', disk, w)
    /\ ioFailed' = (ioFailed \/ w # "ok")
    /\ loadOk' = loadOk
    /\ markLog' = Append(markLog, id)

\* markAsSpoken(id), the write ending as w
markAsSpoken(id, w) ==
    /\ spokenAlertIds' = SetAdd(spokenAlertIds, id)
    /\ disk' = saveSpokenAlerts(spokenAlertIds', disk, w)
    /\ ioFailed' = (ioFailed \/ w # "ok")
    /\ loadOk' = loadOk
    /\ markLog' = Append(markLog, id)

\* ------------------------------------------------------ alertProcessor.js
\* A value of JavaScript that counts as false in x || y and x ? y : z
Falsy(x) == x \in {Undefined, Null, ""}

\* formatTime: new Date(isoString).toLocaleTimeString(...).  The Date of a
\* string that does not parse is an invalid Date, and toLocaleTimeString
\* returns "Invalid Date" for it without throwing, so that the catch block
\* is not entered.
formatTime(isoString) ==
    IF isoString \in ValidTimes THEN "8:00 PM UTC" ELSE "Invalid Date"

\* generateCalmMessage: the two parts of the text that depend on the alert
generateCalmMessage(alert) ==
    [area |-> IF Falsy(alert.areaDesc) THEN "your area" ELSE alert.areaDesc,
     expiresTime |-> IF Falsy(alert.expires)
                     THEN <<"until further notice">>
                     ELSE <<"until ", formatTime(alert.expires)>>]

\* A filter that keeps every entry
filterTornadoWarnings_all(fs) == fs

\* A filter that compares the category without regard to case
filterTornadoWarnings_anyCase(fs) ==
    SelectSeq(fs, LAMBDA f : f.event \in {TARGET, "tornado warning"})

\* A filter that returns the matching entries last first
filterTornadoWarnings_reversed(fs) ==
    LET kept == SelectSeq(fs, LAMBDA f : f.event = TARGET)
    IN  [i \in 1..Len(kept) |-> kept[Len(kept) + 1 - i]]

filterTornadoWarnings(fs) == SelectSeq(fs, LAMBDA f : f.event = TARGET)

\* --------------------------------------------------------------- poller.js
\* A backoff that grows by the base delay with every attempt
Backoff_linear(n) == BASE_DELAY_MS * (n + 1)

\* backoffMs
Backoff(n) == BASE_DELAY_MS * 2^n

\* A test that gives up one attempt later
GivesUp_late(n) == n > MAX_RETRIES

\* The catch block stops retrying
GivesUp(n) == n >= MAX_RETRIES

\* A fetchAlerts that takes the body itself for the one entry of the feed
\* when the body has no features
FeaturesOf_bodyAsEntry(body) ==
    IF body.hasFeatures THEN body.features ELSE <<Feature("a", TARGET)>>

\* process.env.ALERT_STATE || 'KY'
StateOf(env) == IF env = Unset \/ env = <<>> THEN <<"K", "Y">> ELSE env

\* String.prototype.toUpperCase, on the letters of the region codes
UpperChar(c) == CASE c = "k" -> "K" [] c = "y" -> "Y" [] OTHER -> c
toUpperCase(str) == [i \in DOMAIN str |-> UpperChar(str[i])]

\* A fetchAlerts that queries the region code as it is configured
Query_asConfigured(state) ==
    [area |-> state, event |-> TARGET, status |-> "actual"]

\* fetchAlerts: the search parameters of the request URL
Query(state) ==
    [area |-> toUpperCase(state), event |-> "Tornado Warning", status |-> "actual"]

\* data.features ?? []
FeaturesOf(body) == IF body.hasFeatures THEN body.features ELSE <<>>

\* ---------------------------------------------------------------- index.js
\* A rate limit that refuses the attempt made exactly one interval later
GateAllows_strict(t, last) == t - last > SPEECH_RATE_LIMIT_MS

\* speak: the rate limit lets an attempt at time t through
GateAllows(t, last) == ~(t - last < SPEECH_RATE_LIMIT_MS)

\* Date.now() is read on a clock that stops SPEECH_RATE_LIMIT_MS after
\* lastSpeechTime.  The program reads the clock in speak only, to compare
\* now - lastSpeechTime with the limit, so it takes the same decisions on this
\* clock as on the real one; and between two readings the real clock advances
\* at least as much as this one.
Stopped(t, last) ==
    IF t - last > SPEECH_RATE_LIMIT_MS THEN last + SPEECH_RATE_LIMIT_MS ELSE t

\* The clock d milliseconds later
After(d) == Stopped(now + d, lastSpeechTime)

NoExit == 0 - 1

\* Positions at which the event loop has control and a signal handler can run
Suspended == {"startup_speak", "fetch", "backoff", "speak", "sleeping"}

\* speak that does not record the time of the attempt
NotifierStarts_unstamped(id) ==
    /\ lastSpeechTime' = lastSpeechTime
    /\ notifierLog' = Append(notifierLog,
           [id |-> id, at |-> now, cycle |-> cycle,
            fresh |-> id \notin Range(spokenAlertIds)])
    /\ notifierResult' = notifierResult
    /\ speaking' = speaking + 1

\* speak, up to the call of synthesizeSpeech, for a message that passes the gate
NotifierStarts(id) ==
    /\ lastSpeechTime' = now
    /\ notifierLog' = Append(notifierLog,
           [id |-> id, at |-> now, cycle |-> cycle,
            fresh |-> id \notin Range(spokenAlertIds)])
    /\ notifierResult' = notifierResult
    /\ speaking' = speaking + 1

\* A speak that gives the rate-limit window back when the Notifier call fails
NotifierEnds_refundsOnFailure(outcome) ==
    /\ notifierResult' = IF outcome = "ok" THEN "ok" ELSE "failed"
    /\ speaking' = speaking - 1
    /\ lastSpeechTime' = IF outcome = "ok" THEN lastSpeechTime ELSE 0
    /\ notifierLog' = notifierLog

\* speak, from the completion of synthesizeSpeech / playAudio to its return
NotifierEnds(outcome) ==
    /\ notifierResult' = IF outcome = "ok" THEN "ok" ELSE "failed"
    /\ speaking' = speaking - 1
    /\ UNCHANGED <<lastSpeechTime, notifierLog>>

\* A process start that finds the lastSpeechTime of the process before it
FreshProcess_keepsSpeechTime ==
    /\ lastSpeechTime' = lastSpeechTime
    /\ spokenAlertIds' = <<>>
    /\ attempt' = 0
    /\ warnings' = <<>>
    /\ requests' = 0
    /\ failures' = 0
    /\ delays' = <<>>
    /\ fetchStatus' = "pending"
    /\ response' = NoFeaturesKey
    /\ features' = <<>>
    /\ queries' = <<>>
    /\ atCycleStart' = [ids |-> <<>>, disk |-> disk, last |-> lastSpeechTime, failed |-> 0]
    /\ handled' = {}
    /\ notifierLog' = <<>>
    /\ notifierResult' = "none"
    /\ speaking' = 0
    /\ loadOk' = FALSE
    /\ markLog' = <<>>

\* The module state of a process that has not run yet, or is gone
FreshProcess ==
    /\ lastSpeechTime' = 0
    /\ spokenAlertIds' = <<>>
    /\ attempt' = 0
    /\ warnings' = <<>>
    /\ requests' = 0
    /\ failures' = 0
    /\ delays' = <<>>
    /\ fetchStatus' = "pending"
    /\ response' = NoFeaturesKey
    /\ features' = <<>>
    /\ queries' = <<>>
    /\ atCycleStart' = [ids |-> <<>>, disk |-> disk, last |-> 0, failed |-> 0]
    /\ handled' = {}
    /\ notifierLog' = <<>>
    /\ notifierResult' = "none"
    /\ speaking' = 0
    /\ loadOk' = FALSE
    /\ markLog' = <<>>

\* A schedulePoll whose fetchAlerts goes on from the attempt counter of the
\* cycle before
schedulePoll_keepsAttempt(timer) ==
    /\ pollTimer' = timer
    /\ pc' = "fetch"
    /\ cycle' = cycle + 1
    /\ cyclesInFlight' = cyclesInFlight + 1
    /\ attempt' = attempt
    /\ requests' = 1
    /\ failures' = 0
    /\ delays' = <<>>
    /\ fetchStatus' = "pending"
    /\ response' = NoFeaturesKey
    /\ features' = <<>>
    /\ queries' = <<Query(StateOf(alertStateEnv))>>
    /\ atCycleStart' = [ids |-> spokenAlertIds', disk |-> disk', last |-> lastSpeechTime',
                        failed |-> failures]

\* A schedulePoll that arms the timer of the next cycle before it polls
schedulePoll_armsFirst(timer) ==
    /\ pollTimer' = "pending"
    /\ pc' = "fetch"
    /\ cycle' = cycle + 1
    /\ cyclesInFlight' = cyclesInFlight + 1
    /\ attempt' = 0
    /\ requests' = 1
    /\ failures' = 0
    /\ delays' = <<>>
    /\ fetchStatus' = "pending"
    /\ response' = NoFeaturesKey
    /\ features' = <<>>
    /\ queries' = <<Query(StateOf(alertStateEnv))>>
    /\ atCycleStart' = [ids |-> spokenAlertIds', disk |-> disk', last |-> lastSpeechTime',
                        failed |-> failures]

\* schedulePoll, from its entry to the first HTTP request of fetchAlerts;
\* timer is the handle in pollTimer when it is entered
schedulePoll(timer) ==
    /\ pollTimer' = timer
    /\ IF isShuttingDown
       THEN \* returns at once: nothing is in flight, no timer is armed
            /\ pc' = "sleeping"
            /\ UNCHANGED <<cycleVars, fetchVars>>
       ELSE \* pollOnce: fetchAlerts(state) sends its first request
            /\ pc' = "fetch"
            /\ cycle' = cycle + 1
            /\ cyclesInFlight' = cyclesInFlight + 1
            /\ attempt' = 0
            /\ requests' = 1
            /\ failures' = 0
            /\ delays' = <<>>
            /\ fetchStatus' = "pending"
            /\ response' = NoFeaturesKey
            /\ features' = <<>>
            /\ queries' = <<Query(StateOf(alertStateEnv))>>
            /\ atCycleStart' = [ids |-> spokenAlertIds', disk |-> disk', last |-> lastSpeechTime',
                        failed |-> failures]

\* The state before main is called, ALERT_STATE being one of envs
Boot(envs) ==
    /\ now = Stopped(StartTime, 0)
    /\ run = 1
    /\ pc = "start"
    /\ exitCode = NoExit
    /\ lastSpeechTime = 0
    /\ isShuttingDown = FALSE
    /\ pollTimer = "null"
    /\ spokenAlertIds = <<>>
    /\ disk \in InitialDisks
    /\ attempt = 0
    /\ warnings = <<>>
    /\ cycle = 0
    /\ cyclesInFlight = 0
    /\ requests = 0
    /\ failures = 0
    /\ delays = <<>>
    /\ fetchStatus = "pending"
    /\ response = NoFeaturesKey
    /\ features = <<>>
    /\ atCycleStart = [ids |-> <<>>, disk |-> disk, last |-> 0, failed |-> 0]
    /\ handled = {}
    /\ notifierLog = <<>>
    /\ notifierResult = "none"
    /\ speaking = 0
    /\ notifiedBefore = {}
    /\ ioFailed = FALSE
    /\ loadOk = FALSE
    /\ markLog = <<>>
    /\ signal = "none"
    /\ alertStateEnv \in envs
    /\ message = NoMessage
    /\ queries = <<>>

\* A process started without ALERT_STATE
Init == Boot({Unset})

\* A main that calls startPolling without awaiting the speak of the test phrase
main_doesNotAwaitSpeak(readOk) ==
    /\ pc = "start"
    /\ spokenAlertIds' = loadSpokenAlerts(spokenAlertIds, disk, readOk)
    /\ ioFailed' = (ioFailed \/ ~readOk)
    /\ loadOk' = Loads(disk, readOk)
    /\ markLog' = markLog
    /\ disk' = disk
    /\ IF GateAllows(now, lastSpeechTime)
       THEN NotifierStarts(STARTUP)
       ELSE UNCHANGED gateVars
    /\ schedulePoll(pollTimer)
    /\ UNCHANGED <<now, runVars, warnings, handled>>

\* main: load the dedup file, register the handlers, ask for the test phrase
main(readOk) ==
    /\ pc = "start"
    /\ spokenAlertIds' = loadSpokenAlerts(spokenAlertIds, disk, readOk)
    /\ ioFailed' = (ioFailed \/ ~readOk)
    /\ loadOk' = Loads(disk, readOk)
    /\ markLog' = markLog
    /\ disk' = disk
    /\ IF GateAllows(now, lastSpeechTime)
       THEN /\ NotifierStarts(STARTUP)
            /\ pc' = "startup_speak"
            /\ UNCHANGED <<pollTimer, cycleVars, fetchVars>>
       ELSE /\ UNCHANGED gateVars
            /\ schedulePoll(pollTimer)
    /\ UNCHANGED <<now, runVars, warnings, handled>>

\* The Notifier call of the test phrase ends; main goes on to startPolling
StartupSpoken(outcome, d) ==
    /\ pc = "startup_speak"
    /\ now' = After(d)
    /\ NotifierEnds(outcome)
    /\ UNCHANGED dedupVars
    /\ schedulePoll(pollTimer)
    /\ UNCHANGED <<runVars, warnings, handled>>

\* fetchAlerts: the request in flight is answered with a success status
FetchSucceeds(body, d) ==
    /\ pc = "fetch"
    /\ now' = After(d)
    /\ fetchStatus' = "ok"
    /\ response' = body
    /\ features' = FeaturesOf(body)
    /\ warnings' = filterTornadoWarnings(features')
    /\ pc' = "loop"
    /\ UNCHANGED <<runVars, pollTimer, gateVars, dedupVars, cycleVars, handled,
                   attempt, requests, failures, delays, queries>>

\* fetchAlerts: the request in flight is answered with a success status and
\* a body whose features is not an array, or is an array that holds null.
\* fetchAlerts returns it as it is, filterTornadoWarnings throws on it in
\* pollOnce, outside every try; schedulePoll rejects, nothing handles the
\* rejection, and the process ends with status 1.
PollOnceThrows(d) ==
    /\ pc = "fetch"
    /\ now' = After(d)
    /\ pc' = "exited"
    /\ exitCode' = 1
    /\ notifiedBefore' = notifiedBefore \cup
           ({notifierLog[i].id : i \in DOMAIN notifierLog} \ {STARTUP})
    /\ FreshProcess
    /\ UNCHANGED <<run, isShuttingDown, signal, alertStateEnv, message, pollTimer, disk,
                   ioFailed, cycle, cyclesInFlight>>

\* fetchAlerts: the request in flight fails (network error or status not ok)
FetchFails(kind, d) ==
    /\ pc = "fetch"
    /\ now' = After(d)
    /\ failures' = failures + 1
    /\ IF GivesUp(attempt)
       THEN /\ fetchStatus' = "exhausted"
            /\ features' = <<>>
            /\ warnings' = filterTornadoWarnings(features')
            /\ pc' = "loop"
            /\ delays' = delays
       ELSE /\ delays' = Append(delays, Backoff(attempt))
            /\ pc' = "backoff"
            /\ UNCHANGED <<fetchStatus, features, warnings>>
    /\ UNCHANGED <<runVars, pollTimer, gateVars, dedupVars, cycleVars, handled,
                   attempt, requests, response, queries>>

\* fetchAlerts: the backoff delay is over, the recursive call sends the next request
BackoffDone ==
    /\ pc = "backoff"
    /\ now' = After(Backoff(attempt))
    /\ attempt' = attempt + 1
    /\ requests' = requests + 1
    /\ queries' = Append(queries, Query(StateOf(alertStateEnv)))
    /\ pc' = "fetch"
    /\ UNCHANGED <<runVars, pollTimer, gateVars, dedupVars, cycleVars, handled,
                   warnings, failures, delays, fetchStatus, response, features>>

\* A pollOnce that takes the id of a warning it skips out of the set
SkipSpoken_forgets ==
    /\ pc = "loop"
    /\ warnings # <<>>
    /\ hasBeenSpoken(spokenAlertIds, Head(warnings).id)
    /\ spokenAlertIds' =
          SelectSeq(spokenAlertIds, LAMBDA id : id # Head(warnings).id)
    /\ warnings' = Tail(warnings)
    /\ UNCHANGED <<now, pc, runVars, pollTimer, gateVars, disk, ioFailed, loadOk,
                   markLog, cycleVars, fetchVars, handled>>

\* pollOnce: the next warning has been spoken before
SkipSpoken ==
    /\ pc = "loop"
    /\ warnings # <<>>
    /\ hasBeenSpoken(spokenAlertIds, Head(warnings).id)
    /\ warnings' = Tail(warnings)
    /\ UNCHANGED <<now, pc, runVars, pollTimer, gateVars, dedupVars, cycleVars,
                   fetchVars, handled>>

\* A pollOnce that does not mark a warning whose message speak has dropped
SpeakRateLimited_unmarked(w) ==
    /\ pc = "loop"
    /\ warnings # <<>>
    /\ ~hasBeenSpoken(spokenAlertIds, Head(warnings).id)
    /\ ~GateAllows(now, lastSpeechTime)
    /\ handled' = handled \cup {Head(warnings).id}
    /\ warnings' = Tail(warnings)
    /\ UNCHANGED <<now, pc, runVars, pollTimer, gateVars, dedupVars, cycleVars,
                   fetchVars>>

\* pollOnce: the next warning is new, speak drops the message, the id is marked
SpeakRateLimited(w) ==
    /\ pc = "loop"
    /\ warnings # <<>>
    /\ ~hasBeenSpoken(spokenAlertIds, Head(warnings).id)
    /\ ~GateAllows(now, lastSpeechTime)
    /\ handled' = handled \cup {Head(warnings).id}
    /\ markAsSpoken(Head(warnings).id, w)
    /\ warnings' = Tail(warnings)
    /\ UNCHANGED <<now, pc, runVars, pollTimer, gateVars, cycleVars, fetchVars>>

\* A pollOnce that marks the id before it awaits speak
SpeakStarts_marksFirst ==
    /\ pc = "loop"
    /\ warnings # <<>>
    /\ ~hasBeenSpoken(spokenAlertIds, Head(warnings).id)
    /\ GateAllows(now, lastSpeechTime)
    /\ NotifierStarts(Head(warnings).id)
    /\ handled' = handled \cup {Head(warnings).id}
    /\ \E w \in WriteOutcomes : markAsSpoken(Head(warnings).id, w)
    /\ pc' = "speak"
    /\ UNCHANGED <<now, runVars, pollTimer, cycleVars, fetchVars, warnings>>

\* pollOnce: the next warning is new, speak starts the Notifier for it
SpeakStarts ==
    /\ pc = "loop"
    /\ warnings # <<>>
    /\ ~hasBeenSpoken(spokenAlertIds, Head(warnings).id)
    /\ GateAllows(now, lastSpeechTime)
    /\ NotifierStarts(Head(warnings).id)
    /\ handled' = handled \cup {Head(warnings).id}
    /\ pc' = "speak"
    /\ UNCHANGED <<now, runVars, pollTimer, dedupVars, cycleVars, fetchVars, warnings>>

\* A pollOnce that marks the id only when the Notifier call succeeded
SpeakEnds_marksOnSuccess(outcome, d, w) ==
    /\ pc = "speak"
    /\ now' = After(d)
    /\ NotifierEnds(outcome)
    /\ IF outcome = "ok"
       THEN markAsSpoken(Head(warnings).id, w)
       ELSE UNCHANGED dedupVars
    /\ warnings' = Tail(warnings)
    /\ pc' = "loop"
    /\ UNCHANGED <<runVars, pollTimer, cycleVars, fetchVars, handled>>

\* A pollOnce that gives up the rest of the cycle when the Notifier call fails
SpeakEnds_abortsOnFailure(outcome, d, w) ==
    /\ pc = "speak"
    /\ now' = After(d)
    /\ NotifierEnds(outcome)
    /\ IF outcome = "ok"
       THEN /\ markAsSpoken(Head(warnings).id, w)
            /\ warnings' = Tail(warnings)
       ELSE /\ UNCHANGED dedupVars
            /\ warnings' = <<>>
    /\ pc' = "loop"
    /\ UNCHANGED <<runVars, pollTimer, cycleVars, fetchVars, handled>>

\* pollOnce: the Notifier call ends, speak returns, the id is marked
SpeakEnds(outcome, d, w) ==
    /\ pc = "speak"
    /\ now' = After(d)
    /\ NotifierEnds(outcome)
    /\ markAsSpoken(Head(warnings).id, w)
    /\ warnings' = Tail(warnings)
    /\ pc' = "loop"
    /\ UNCHANGED <<runVars, pollTimer, cycleVars, fetchVars, handled>>

\* pollOnce returns; schedulePoll arms the timer of the next cycle
PollOnceReturns ==
    /\ pc = "loop"
    /\ warnings = <<>>
    /\ cyclesInFlight' = cyclesInFlight - 1
    /\ pollTimer' = IF ~isShuttingDown THEN "pending" ELSE pollTimer
    /\ pc' = "sleeping"
    /\ UNCHANGED <<now, runVars, gateVars, dedupVars, fetchVars, warnings, cycle,
                   atCycleStart, handled>>

\* The poll timer fires and calls schedulePoll
TimerFires ==
    /\ pollTimer = "pending"
    /\ cycle < MaxCycles
    /\ now' = After(POLL_INTERVAL_MS)
    /\ UNCHANGED <<dedupVars, gateVars>>
    /\ schedulePoll("fired")
    /\ UNCHANGED <<runVars, warnings, handled>>

\* A handler that takes the signal and does nothing
shutdown_doesNothing(sig) ==
    /\ pc \in Suspended
    /\ signal = "none"
    /\ signal' = sig
    /\ UNCHANGED <<now, run, pc, exitCode, isShuttingDown, pollTimer, notifiedBefore,
                   alertStateEnv, message, gateVars, dedupVars, fetchVars, cycleVars,
                   warnings, handled>>

\* A shutdown that sets the flag and leaves the timer and the process alone
shutdown_flagOnly(sig) ==
    /\ pc \in Suspended
    /\ signal = "none"
    /\ signal' = sig
    /\ isShuttingDown' = TRUE
    /\ UNCHANGED <<now, run, pc, exitCode, pollTimer, notifiedBefore, alertStateEnv,
                   message, gateVars,
                   dedupVars, fetchVars, cycleVars, warnings, handled>>

\* shutdown, the handler of SIGTERM and SIGINT.  process.exit ends the process
\* on the spot: the file, the exit status and the last writes of the handler
\* are what is left of it.
shutdown(sig) ==
    /\ pc \in Suspended
    /\ signal' = sig
    /\ isShuttingDown' = TRUE
    /\ pollTimer' = IF pollTimer # "null" THEN "null" ELSE pollTimer
    /\ pc' = "exited"
    /\ exitCode' = 0
    /\ notifiedBefore' = notifiedBefore \cup
           ({notifierLog[i].id : i \in DOMAIN notifierLog} \ {STARTUP})
    /\ FreshProcess
    /\ UNCHANGED <<now, run, alertStateEnv, message, disk, ioFailed, cycle,
                   cyclesInFlight>>

\* The process is started again; the dedup file is what the last run left
Restart ==
    /\ pc = "exited"
    /\ run < MaxRuns
    /\ run' = run + 1
    /\ now' = Stopped(StartTime, 0)
    /\ pc' = "start"
    /\ exitCode' = NoExit
    /\ isShuttingDown' = FALSE
    /\ pollTimer' = "null"
    /\ signal' = "none"
    /\ cycle' = 0
    /\ cyclesInFlight' = 0
    /\ FreshProcess
    /\ UNCHANGED <<disk, ioFailed, notifiedBefore, alertStateEnv, message>>

\* Every step of a run but a failing request and the firing of the poll timer
Poll ==
    \/ \E readOk \in BOOLEAN : main(readOk)
    \/ \E o \in NotifierOutcomes, d \in NotifierDurations : StartupSpoken(o, d)
    \/ \E body \in Bodies, d \in RequestDurations : FetchSucceeds(body, d)
    \/ \E d \in RequestDurations : PollOnceThrows(d)
    \/ BackoffDone
    \/ SkipSpoken
    \/ \E w \in WriteOutcomes : SpeakRateLimited(w)
    \/ SpeakStarts
    \/ \E o \in NotifierOutcomes, d \in NotifierDurations, w \in WriteOutcomes :
          SpeakEnds(o, d, w)
    \/ PollOnceReturns
    \/ \E sig \in {"SIGTERM", "SIGINT"} : shutdown(sig)

\* A run of the process, over MaxCycles poll cycles, in each of which at most
\* MaxFetchFailures requests fail
Next ==
    \/ Poll
    \/ TimerFires
    \/ /\ failures < MaxFetchFailures
       /\ \E k \in FetchOutcomes \ {"ok"}, d \in RequestDurations : FetchFails(k, d)

Spec == Init /\ [][Next]_vars

\* The first poll cycle of a run, with any number of failing requests
NextRetry ==
    \/ Poll
    \/ \E k \in FetchOutcomes \ {"ok"}, d \in RequestDurations : FetchFails(k, d)

SpecRetry == Init /\ [][NextRetry]_vars

\* The first poll cycle of a run, with any number of failing requests, of a
\* process started with any of the values of ALERT_STATE
SpecQuery == Boot(AlertStateEnvs) /\ [][NextRetry]_vars

\* MaxRuns runs of the process, one after the other, on the same dedup file,
\* each of them ended by a signal before its second poll cycle
NextRestart ==
    \/ Poll
    \/ /\ failures < MaxFetchFailures
       /\ \E k \in FetchOutcomes \ {"ok"}, d \in RequestDurations : FetchFails(k, d)
    \/ Restart

SpecRestart == Init /\ [][NextRestart]_vars

\* A run that no signal ends: every step of Next but shutdown
NextLive ==
    \/ \E readOk \in BOOLEAN : main(readOk)
    \/ \E o \in NotifierOutcomes, d \in NotifierDurations : StartupSpoken(o, d)
    \/ \E body \in Bodies, d \in RequestDurations : FetchSucceeds(body, d)
    \/ \E d \in RequestDurations : PollOnceThrows(d)
    \/ /\ failures < MaxFetchFailures
       /\ \E k \in FetchOutcomes \ {"ok"}, d \in RequestDurations : FetchFails(k, d)
    \/ BackoffDone
    \/ SkipSpoken
    \/ \E w \in WriteOutcomes : SpeakRateLimited(w)
    \/ SpeakStarts
    \/ \E o \in NotifierOutcomes, d \in NotifierDurations, w \in WriteOutcomes :
          SpeakEnds(o, d, w)
    \/ PollOnceReturns
    \/ TimerFires

\* The same run when every request, every delay, every Notifier call and
\* every timer comes to its end, and the event loop runs what is ready
SpecLive == Init /\ [][NextLive]_vars /\ WF_vars(NextLive)

\* deduplication.js driven through its exports, as its test suite drives it:
\* markAsSpoken with any id, the id already marked or not
Mark(id, w) ==
    /\ pc \in {"start", "loop"}
    /\ Len(markLog) < MaxMarks
    /\ markAsSpoken(id, w)
    /\ pc' = "loop"
    /\ UNCHANGED <<now, runVars, pollTimer, gateVars, fetchVars, cycleVars,
                   warnings, handled>>

\* _reset() followed by loadSpokenAlerts(): the module of a process that has
\* just started, on the file the last process left
Reload(readOk) ==
    /\ pc \in {"start", "loop"}
    /\ spokenAlertIds' = loadSpokenAlerts(<<>>, disk, readOk)
    /\ ioFailed' = (ioFailed \/ ~readOk)
    /\ loadOk' = Loads(disk, readOk)
    /\ markLog' = <<>>
    /\ disk' = disk
    /\ pc' = "loop"
    /\ UNCHANGED <<now, runVars, pollTimer, gateVars, fetchVars, cycleVars,
                   warnings, handled>>

NextDedup ==
    \/ \E id \in Ids, w \in WriteOutcomes : Mark(id, w)
    \/ \E readOk \in BOOLEAN : Reload(readOk)

SpecDedup == Init /\ [][NextDedup]_vars

\* loadSpokenAlerts() called on the module as it is, without _reset()
Load(readOk) ==
    /\ pc \in {"start", "loop"}
    /\ spokenAlertIds' = loadSpokenAlerts(spokenAlertIds, disk, readOk)
    /\ ioFailed' = (ioFailed \/ ~readOk)
    /\ loadOk' = Loads(disk, readOk)
    /\ markLog' = markLog
    /\ disk' = disk
    /\ pc' = "loop"
    /\ UNCHANGED <<now, runVars, pollTimer, gateVars, fetchVars, cycleVars,
                   warnings, handled>>

NextLoad ==
    \/ \E id \in Ids, w \in WriteOutcomes : Mark(id, w)
    \/ \E readOk \in BOOLEAN : Load(readOk)

\* deduplication.js driven by markAsSpoken and loadSpokenAlerts in any order
SpecLoad == Init /\ [][NextLoad]_vars

\* filterTornadoWarnings called on its own with a list of entries, as the
\* test suite of alertProcessor.js calls it
Filter(fs) ==
    /\ pc = "start"
    /\ features' = fs
    /\ warnings' = filterTornadoWarnings(fs)
    /\ pc' = "filtered"
    /\ UNCHANGED <<now, runVars, pollTimer, gateVars, dedupVars, cycleVars, handled,
                   attempt, requests, failures, delays, fetchStatus, response, queries>>

NextFilter == \E fs \in FilterInputs : Filter(fs)

SpecFilter == Init /\ [][NextFilter]_vars

\* generateCalmMessage called on its own with a warning, as the test suite
\* of alertProcessor.js calls it
Compose(alert) ==
    /\ pc = "start"
    /\ warnings' = <<alert>>
    /\ message' = generateCalmMessage(alert)
    /\ pc' = "composed"
    /\ UNCHANGED <<now, run, exitCode, isShuttingDown, notifiedBefore, signal,
                   alertStateEnv, pollTimer, gateVars, dedupVars, cycleVars,
                   fetchVars, handled>>

NextMessage == \E a \in AreaDescs, e \in Expiries : Compose(Alert(a, e))

SpecMessage == Init /\ [][NextMessage]_vars

\* ------------------------------------------------------------ properties
\* The ids of the target-category entries of a feature list
TargetIds(fs) == {fs[k].id : k \in {n \in DOMAIN fs : fs[n].event = TARGET}}

\* C1: within a run the Notifier is never invoked for a warning whose id is in
\* the dedup set at that time (loaded at startup or marked earlier), and no id
\* gets more than one Notifier invocation, whatever the cycles return.
C1_NoRepeatedAnnouncement ==
    /\ \A i \in DOMAIN notifierLog : notifierLog[i].fresh
    /\ \A i, j \in DOMAIN notifierLog :
          notifierLog[i].id = notifierLog[j].id => i = j

\* C1 witness: the second cycle has ended, and its fetch returned, twice, a
\* warning that was announced in the first cycle.
C1_Witness ==
    /\ cycle = 2
    /\ pc = "sleeping"
    /\ Len(features) = 2
    /\ features[1] = features[2]
    /\ \E i \in DOMAIN notifierLog :
          /\ notifierLog[i].cycle = 1
          /\ notifierLog[i].id \in TargetIds(features)

\* C2: any two Notifier invocations of a run (test phrase and warnings) were
\* started at least SPEECH_RATE_LIMIT_MS apart, however the earlier one ended.
\* (Times are readings of the clock described at Stopped: the real clock has
\* advanced at least as much between the two starts.)
C2_MinimumInterval ==
    \A i, j \in DOMAIN notifierLog :
       i < j => notifierLog[j].at - notifierLog[i].at >= SPEECH_RATE_LIMIT_MS

\* C2 witness: a Notifier call has failed, and the next one was started
\* when SPEECH_RATE_LIMIT_MS had passed since the start of the failed one.
C2_Witness ==
    /\ pc = "speak"
    /\ notifierResult = "failed"
    /\ Len(notifierLog) >= 2
    /\ notifierLog[Len(notifierLog)].at - notifierLog[Len(notifierLog) - 1].at
          = SPEECH_RATE_LIMIT_MS

\* C3: a termination signal that arrives while a Notifier call is in flight
\* does not end the process before that call has finished.
C3_NotifierCallNotInterrupted ==
    [][(pc \in {"startup_speak", "speak"}) => ~(pc' = "exited")]_vars

\* The ids of the target-category warnings of this cycle's fetch that were not
\* in the dedup set when the cycle started
NewIds == TargetIds(features) \ Range(atCycleStart.ids)

\* The Notifier invocations of this cycle for the id
Invocations(id) ==
    {i \in DOMAIN notifierLog :
        notifierLog[i].cycle = cycle /\ notifierLog[i].id = id}

\* C4: a cycle (the first one after the test phrase included) whose fetch
\* returned exactly one new target-category warning has invoked the Notifier
\* exactly once for it when it ends, and the id is in the dedup set.
C4_SingleNewWarningAnnounced ==
    (pc = "sleeping" /\ cycle >= 1 /\ Cardinality(NewIds) = 1) =>
        \A id \in NewIds :
           /\ Cardinality(Invocations(id)) = 1
           /\ hasBeenSpoken(spokenAlertIds, id)

\* The Notifier call of the head of warnings is in flight
InFlight(id) == pc = "speak" /\ Head(warnings).id = id

\* C5: every new warning pollOnce has passed to speak is marked as soon as
\* speak has returned, whether the Notifier call succeeded or failed, and it
\* is never passed to the Notifier a second time in the run.
C5_MarkedWhateverTheOutcome ==
    /\ \A id \in handled : InFlight(id) \/ hasBeenSpoken(spokenAlertIds, id)
    /\ \A i \in DOMAIN notifierLog :
          /\ notifierLog[i].id # STARTUP => notifierLog[i].id \in handled
          /\ \A j \in DOMAIN notifierLog :
                notifierLog[i].id = notifierLog[j].id => i = j

\* C5 witness: the Notifier call of a warning failed in the first cycle, the
\* second cycle returned the same warning and has ended without another call.
C5_Witness ==
    /\ cycle = 2
    /\ pc = "sleeping"
    /\ notifierResult = "failed"
    /\ notifierLog # <<>>
    /\ notifierLog[Len(notifierLog)].cycle = 1
    /\ notifierLog[Len(notifierLog)].id \in TargetIds(features)

\* C6: with working storage, the Notifier is never invoked for an id it was
\* invoked for in an earlier run, wherever that run was terminated.
C6_NotAnnouncedAgainAfterRestart ==
    (~ioFailed /\ disk.kind \in {"absent", "array"}) =>
        \A i \in DOMAIN notifierLog : notifierLog[i].id \notin notifiedBefore

\* C7: at most one poll cycle is in flight, and the timer of the next cycle
\* is armed only when pollOnce has returned.
C7_OneCycleInFlight ==
    /\ cyclesInFlight <= 1
    /\ pollTimer = "pending" => (cyclesInFlight = 0 /\ pc = "sleeping")

\* C7 witness: the second cycle is speaking a warning after a fetch that
\* needed a retry, and no timer is pending.
C7_Witness ==
    /\ cycle = 2
    /\ pc = "speak"
    /\ failures >= 1
    /\ cyclesInFlight = 1
    /\ pollTimer = "fired"

\* C8: once SIGTERM or SIGINT has been received the flag is set, no timer is
\* pending, the process has exited with status 0, and no cycle, request or
\* timer is started afterwards.
C8_ShutdownStopsPolling ==
    /\ [](signal # "none" =>
            /\ isShuttingDown
            /\ pollTimer = "null"
            /\ pc = "exited"
            /\ exitCode = 0)
    /\ [][(signal # "none") => UNCHANGED <<cycle, requests, pollTimer, pc>>]_vars

\* C8 witness: SIGINT arrived while the timer of the second cycle was pending.
C8_Witness ==
    /\ signal = "SIGINT"
    /\ pc = "exited"
    /\ cycle = 1
    /\ cyclesInFlight = 0
    /\ pollTimer = "null"

C11_StoreOnlyGrows ==
    [][\A id \in Range(disk.ids) : id \in Range(disk'.ids)]_vars

WrongShape(file) ==
    \/ file.kind = "nonarray"
    \/ file.kind = "array" /\ NonString \in Range(file.ids)

\* C13: when main has called loadSpokenAlerts on a file whose content parses
\* and is not a sequence of strings, the in-memory set is empty.
C13_WrongShapeStartsEmpty ==
    (pc = "startup_speak" /\ ~ioFailed /\ WrongShape(disk)) => spokenAlertIds = <<>>

\* C14: an id pollOnce has passed to markAsSpoken and that is not in the file
\* (its write failed) is in the in-memory set for the rest of the run, and
\* the Notifier is invoked at most once for it.
C14_MarkSurvivesWriteFailure ==
    \A id \in handled :
       id \notin Range(disk.ids) =>
          \/ InFlight(id)
          \/ /\ hasBeenSpoken(spokenAlertIds, id)
             /\ Cardinality({i \in DOMAIN notifierLog : notifierLog[i].id = id}) <= 1

\* C14 witness: the write of a warning announced in the first cycle failed,
\* the second cycle returned the warning again and has ended.
C14_Witness ==
    /\ cycle = 2
    /\ pc = "sleeping"
    /\ ioFailed
    /\ \E i \in DOMAIN notifierLog :
          /\ notifierLog[i].cycle = 1
          /\ notifierLog[i].id \in TargetIds(features)
          /\ notifierLog[i].id \notin Range(disk.ids)
          /\ Len(notifierLog) = i

\* How often the id occurs in the sequence
Count(s, id) == Cardinality({i \in DOMAIN s : s[i] = id})

\* C15: after markAsSpoken(id), hasBeenSpoken(id) is true and hasBeenSpoken
\* of every other id is what it was; when the id was marked already the size
\* of the set is unchanged; the sequence a successful write leaves holds the
\* id exactly once.
C15_MarkIsIdempotent ==
    [][\A id \in Ids, w \in WriteOutcomes :
          Mark(id, w) =>
             /\ hasBeenSpoken(spokenAlertIds', id)
             /\ \A other \in (Ids \cup {NonString}) \ {id} :
                   hasBeenSpoken(spokenAlertIds', other)
                      = hasBeenSpoken(spokenAlertIds, other)
             /\ hasBeenSpoken(spokenAlertIds, id) =>
                   Len(spokenAlertIds') = Len(spokenAlertIds)
             /\ w = "ok" =>
                   /\ disk'.kind = "array"
                   /\ Count(disk'.ids, id) = 1]_vars

\* C15 witness: an id was marked twice and another id once, every write
\* succeeded, and set and file hold each of them once.
C15_Witness ==
    /\ \E i, j \in DOMAIN markLog : i < j /\ markLog[i] = markLog[j]
    /\ Range(markLog) = Ids
    /\ ~ioFailed
    /\ Len(spokenAlertIds) = Cardinality(Ids)
    /\ disk = DiskArray(spokenAlertIds)

Refused == handled \ {notifierLog[i].id : i \in DOMAIN notifierLog}

\* C17: an attempt the gate refuses starts no Notifier call, leaves
\* lastSpeechTime as it was and is not kept for later; and the Notifier is
\* invoked for the refused warning in no later cycle of the run.
C17_RefusedIsDropped ==
    /\ [][(handled' # handled /\ Len(notifierLog') = Len(notifierLog)) =>
             /\ lastSpeechTime' = lastSpeechTime
             /\ pc' = "loop"
             /\ warnings' = Tail(warnings)]_vars
    /\ [][~(pc' = "exited") => Refused \subseteq Refused']_vars

\* C17 witness: a warning refused in the first cycle was returned again by
\* the second cycle, which has ended.
C17_Witness ==
    /\ cycle = 2
    /\ pc = "sleeping"
    /\ \E id \in Refused :
          /\ id \in TargetIds(features)
          /\ id \in Range(atCycleStart.ids)

\* C18: lastSpeechTime is the start time of the last Notifier invocation from
\* the moment the call is made, whether it has ended or not and however it
\* ended; and an attempt made less than SPEECH_RATE_LIMIT_MS after the start
\* of a failed call starts no Notifier call.
C18_FailedCallConsumesWindow ==
    /\ []((pc \notin {"start", "exited"} /\ notifierLog # <<>>) =>
             lastSpeechTime = notifierLog[Len(notifierLog)].at)
    /\ [][(/\ pc = "loop"
           /\ notifierResult = "failed"
           /\ handled' # handled
           /\ now - notifierLog[Len(notifierLog)].at < SPEECH_RATE_LIMIT_MS) =>
              notifierLog' = notifierLog]_vars

\* C18 witness: in this cycle the Notifier call of a new warning has failed
\* and the next new warning was refused.
C18_Witness ==
    /\ pc = "sleeping"
    /\ notifierResult = "failed"
    /\ notifierLog[Len(notifierLog)].cycle = cycle
    /\ (Refused \cap NewIds) # {}

\* The new target-category warnings of this cycle's fetch, in feed order
NewWarnings ==
    SelectSeq(filterTornadoWarnings(features),
              LAMBDA f : f.id \notin Range(atCycleStart.ids))

\* C19: at the end of a cycle every target-category id its fetch returned is
\* in the dedup set; and when the cycle had several distinct new warnings the
\* first was passed to the Notifier once, and a later one only if it was
\* processed SPEECH_RATE_LIMIT_MS or more after the first.
C19_FirstSpokenRestMarked ==
    (pc = "sleeping" /\ cycle >= 1) =>
        /\ TargetIds(features) \subseteq Range(spokenAlertIds)
        /\ Cardinality(NewIds) >= 2 =>
              /\ Cardinality(Invocations(Head(NewWarnings).id)) = 1
              /\ \A id \in NewIds \ {Head(NewWarnings).id} :
                    \A i \in Invocations(id), j \in Invocations(Head(NewWarnings).id) :
                       notifierLog[i].at - notifierLog[j].at >= SPEECH_RATE_LIMIT_MS

\* C20: a process starts with lastSpeechTime 0 and an empty set, whatever the
\* process before it did; main loads the dedup file before it asks for the
\* test phrase; that first request passes the gate, so the first Notifier
\* invocation of every run is the test phrase; and no request of fetchAlerts
\* is made before the Notifier call of the test phrase has ended.
C20_StartupOrder ==
    /\ pc = "start" => (lastSpeechTime = 0 /\ spokenAlertIds = <<>>)
    /\ pc \notin {"start", "exited"} =>
          /\ notifierLog # <<>>
          /\ notifierLog[1].id = STARTUP
          /\ notifierLog[1].cycle = 0
    /\ pc = "startup_speak" =>
          /\ cycle = 0
          /\ requests = 0
          /\ (~ioFailed /\ disk.kind = "array") =>
                Range(spokenAlertIds) = Range(disk.ids)
    /\ (cycle >= 1 /\ pc # "exited") => notifierResult # "none"

\* C20 witness: the second run has loaded an id the first run marked, the
\* call of its test phrase has ended and its first request is in flight.
C20_Witness ==
    /\ run = 2
    /\ pc = "fetch"
    /\ cycle = 1
    /\ requests = 1
    /\ ~ioFailed
    /\ spokenAlertIds = <<"b">>
    /\ Len(notifierLog) = 1
    /\ notifierResult # "none"

\* The ids of a sequence of entries
IdsOf(s) == [i \in DOMAIN s |-> s[i].id]

\* s is the beginning of t
IsPrefix(s, t) == Len(s) <= Len(t) /\ SubSeq(t, 1, Len(s)) = s

\* The position of the id in a sequence that holds it once
Pos(s, id) == CHOOSE i \in DOMAIN s : s[i] = id

\* The new target-category ids of this cycle's fetch, in the order of the feed
FeedOrder ==
    ToSet(IdsOf(SelectSeq(features,
        LAMBDA f : f.event = TARGET /\ f.id \notin Range(atCycleStart.ids))))

\* The ids marked, and the ids passed to the Notifier, in this cycle, in order
MarkedThisCycle == SelectSeq(markLog, LAMBDA id : id \in NewIds)
AnnouncedThisCycle ==
    IdsOf(SelectSeq(notifierLog, LAMBDA e : e.cycle = cycle /\ e.id # STARTUP))

\* C21: the warnings of a cycle are marked, and passed to the Notifier, in
\* the order of the feed; a Notifier call is for the warning that follows
\* the ones already marked, so a warning is handled completely before the
\* next; and the Notifier invocations of a cycle come before those of every
\* later cycle.
C21_HandledInFeedOrder ==
    /\ \A i, j \in DOMAIN notifierLog :
          i < j => notifierLog[i].cycle <= notifierLog[j].cycle
    /\ (cycle >= 1 /\ pc # "exited") =>
          /\ IsPrefix(MarkedThisCycle, FeedOrder)
          /\ \A i, j \in DOMAIN AnnouncedThisCycle :
                i < j => Pos(FeedOrder, AnnouncedThisCycle[i])
                            < Pos(FeedOrder, AnnouncedThisCycle[j])
          /\ pc = "speak" =>
                /\ FeedOrder[Len(MarkedThisCycle) + 1] = Head(warnings).id
                /\ AnnouncedThisCycle[Len(AnnouncedThisCycle)] = Head(warnings).id

\* C21 witness: a cycle whose fetch returned the new warnings b and a, in
\* this order, has passed both to the Notifier and has ended.
C21_Witness ==
    /\ pc = "sleeping"
    /\ FeedOrder = <<"b", "a">>
    /\ AnnouncedThisCycle = <<"b", "a">>
    /\ MarkedThisCycle = <<"b", "a">>

\* C22: a failing Notifier call or a failing write of the dedup file for one
\* warning does not stop the cycle: while pollOnce runs, every new warning of
\* the fetch is either marked or still waiting for its turn, and when pollOnce
\* has returned every one of them has been offered to the gate and is in the
\* dedup set, no cycle is in flight and the process has not exited.
C22_FailureIsIsolated ==
    /\ (cycle >= 1 /\ pc \in {"loop", "speak"}) =>
          NewIds \subseteq Range(MarkedThisCycle) \cup Range(IdsOf(warnings))
    /\ (cycle >= 1 /\ pc = "sleeping") =>
          /\ NewIds \subseteq handled
          /\ NewIds \subseteq Range(spokenAlertIds)
          /\ Range(MarkedThisCycle) = NewIds
          /\ warnings = <<>>
          /\ cyclesInFlight = 0
          /\ exitCode = NoExit

\* C22 witness: the fetch returned the new warnings b and a; the Notifier
\* call for b failed and no write of the cycle reached the file; a was
\* offered to the gate and marked all the same, and pollOnce has returned.
C22_Witness ==
    /\ pc = "sleeping"
    /\ FeedOrder = <<"b", "a">>
    /\ AnnouncedThisCycle = <<"b">>
    /\ notifierResult = "failed"
    /\ disk = atCycleStart.disk
    /\ {"a", "b"} \subseteq handled
    /\ MarkedThisCycle = <<"b", "a">>

\* The positions of the target-category entries of a list, and the k-th of
\* a set of positions
TargetIdx(fs) == {n \in DOMAIN fs : fs[n].event = TARGET}
Nth(S, k) == CHOOSE n \in S : Cardinality({m \in S : m <= n}) = k

\* C23: filterTornadoWarnings returns the entries of its input whose category
\* is exactly "Tornado Warning", each of them once, unchanged and in the
\* order of the input: the k-th entry of the output is the entry at the k-th
\* target position of the input.  An empty input gives an empty output, and
\* an entry without category, or with a null one, is left out.
C23_FilterKeepsExactlyTheTarget ==
    pc = "filtered" =>
       /\ Len(warnings) = Cardinality(TargetIdx(features))
       /\ \A k \in DOMAIN warnings :
             warnings[k] = features[Nth(TargetIdx(features), k)]
       /\ \A k \in DOMAIN warnings :
             warnings[k].event \notin {Undefined, Null, "tornado warning"}
       /\ features = <<>> => warnings = <<>>

\* C23 witness: the filter was applied to a list that holds the warning b
\* before the warning a and an entry without category or with a null one,
\* and has returned b and a.
C23_Witness ==
    /\ pc = "filtered"
    /\ \E n \in DOMAIN features : features[n].event \in {Undefined, Null}
    /\ IdsOf(warnings) = <<"b", "a">>

\* C24: a cycle whose fetch returned entries, none of them of the target
\* category, has no Notifier invocation and no mark, and the dedup set, the
\* dedup file and lastSpeechTime are what they were when the cycle started.
C24_NonTargetCycleChangesNothing ==
    (cycle >= 1 /\ fetchStatus = "ok" /\ features # <<>>
       /\ TargetIds(features) = {}) =>
          /\ \A i \in DOMAIN notifierLog : notifierLog[i].cycle # cycle
          /\ warnings = <<>>
          /\ spokenAlertIds = atCycleStart.ids
          /\ disk = atCycleStart.disk
          /\ lastSpeechTime = atCycleStart.last

\* C24 witness: the second cycle, which started with a warning in the dedup
\* set and a Notifier call behind it, has fetched two entries of another
\* category and has ended.
C24_Witness ==
    /\ cycle = 2
    /\ pc = "sleeping"
    /\ fetchStatus = "ok"
    /\ Len(features) = 2
    /\ TargetIds(features) = {}
    /\ spokenAlertIds # <<>>
    /\ \E i \in DOMAIN notifierLog : notifierLog[i].cycle = 1

\* C25: the process ends with a status other than 0 only when main fails
\* before it starts polling; once polling has started, no answer to a
\* request, no Notifier failure and no failure of the dedup file ends the
\* process with another status, and a process ended by a signal has status 0.
C25_AbnormalExitOnlyFromMain ==
    pc = "exited" =>
       /\ exitCode # 0 => cycle = 0
       /\ signal # "none" => exitCode = 0

\* C26: when a request is answered with a success status and a body without
\* features, fetchAlerts has returned the empty sequence: the cycle has no
\* warning to handle, the answer is not counted as a failure, and no request
\* and no backoff delay follows it (every request but the answered one has
\* failed, and every delay follows a failed request).
C26_MissingFeaturesIsEmpty ==
    (cycle >= 1 /\ fetchStatus = "ok" /\ ~response.hasFeatures) =>
       /\ pc \in {"loop", "sleeping"}
       /\ features = <<>>
       /\ warnings = <<>>
       /\ requests = failures + 1
       /\ Len(delays) = failures
       /\ \A i \in DOMAIN notifierLog : notifierLog[i].cycle # cycle

\* C26 witness: the only request of a cycle was answered with a body without
\* features, and pollOnce has returned.
C26_Witness ==
    /\ cycle >= 1
    /\ pc = "sleeping"
    /\ fetchStatus = "ok"
    /\ ~response.hasFeatures
    /\ requests = 1
    /\ delays = <<>>

\* C27: the fetch of every cycle starts with the attempt counter 0, whatever
\* the cycle before it went through: while a request is in flight the counter
\* is the number of requests of this cycle that have failed, while fetchAlerts
\* waits it is one less, and the k-th delay of the cycle is the base delay
\* doubled k - 1 times, so that the first one is the base delay.
C27_FreshRetryStatePerCycle ==
    /\ pc = "fetch" => attempt = failures /\ requests = failures + 1
    /\ pc = "backoff" => attempt = failures - 1 /\ Len(delays) = failures
    /\ \A k \in DOMAIN delays : delays[k] = BASE_DELAY_MS * 2^(k - 1)

\* C27 witness: a request of the second cycle has failed and fetchAlerts
\* waits for the base delay, after a first cycle in which a request failed.
C27_Witness ==
    /\ cycle = 2
    /\ atCycleStart.failed >= 1
    /\ pc = "backoff"
    /\ attempt = 0
    /\ delays = <<BASE_DELAY_MS>>

\* The letters toUpperCase changes, and the region code that pollOnce passes
\* to fetchAlerts
LowerLetters == {"k", "y"}
CasePairs == {<<"k", "K">>, <<"y", "Y">>}
Region == IF alertStateEnv \in {Unset, <<>>} THEN <<"K", "Y">> ELSE alertStateEnv

\* C28: every request of a fetch, the first one and every retry, has the same
\* query: the area is the region code with its lower-case letters replaced
\* by their capitals, the event is "Tornado Warning" and the status "actual".
C28_SameQueryEveryAttempt ==
    /\ pc \in {"fetch", "backoff", "loop", "speak"} => Len(queries) = requests
    /\ \A i \in DOMAIN queries :
          /\ queries[i].event = "Tornado Warning"
          /\ queries[i].status = "actual"
          /\ Len(queries[i].area) = Len(Region)
          /\ \A k \in DOMAIN Region :
                /\ queries[i].area[k] \notin LowerLetters
                /\ \/ queries[i].area[k] = Region[k]
                   \/ <<Region[k], queries[i].area[k]>> \in CasePairs
          /\ queries[i] = queries[1]

\* C28 witness: the process was started with ALERT_STATE=ky; the first
\* request of a fetch has failed and the retry is in flight, both with the
\* area KY.
C28_Witness ==
    /\ alertStateEnv = <<"k", "y">>
    /\ pc = "fetch"
    /\ requests = 2
    /\ Len(queries) = 2
    /\ queries[2].area = <<"K", "Y">>

\* C29: the fetch of a cycle makes at most DOCUMENTED_MAX_ATTEMPTS requests,
\* the first one counted, however many of them fail, and the delay awaited
\* after the k-th failed request is the base delay doubled k - 1 times.
C29_AtMostFiveAttempts ==
    /\ requests <= DOCUMENTED_MAX_ATTEMPTS
    /\ \A k \in DOMAIN delays : delays[k] = BASE_DELAY_MS * 2^(k - 1)

\* A step in which speak is called: by main with the test phrase, or by
\* pollOnce with the message of a warning it has not handled yet
SpeakCalled == pc = "start" \/ handled' # handled

\* C30: a call of speak at time now starts the Notifier if and only if
\* now - lastSpeechTime >= SPEECH_RATE_LIMIT_MS; a call that starts it sets
\* lastSpeechTime to now, a call that does not leaves it alone, and within a
\* run no other step changes lastSpeechTime.
C30_GateDecision ==
    [][(pc # "exited" /\ pc' # "exited") =>
          /\ SpeakCalled =>
                /\ (Len(notifierLog') = Len(notifierLog) + 1)
                      <=> (now - lastSpeechTime >= SPEECH_RATE_LIMIT_MS)
                /\ Len(notifierLog') \in {Len(notifierLog), Len(notifierLog) + 1}
                /\ lastSpeechTime' =
                      IF now - lastSpeechTime >= SPEECH_RATE_LIMIT_MS
                      THEN now ELSE lastSpeechTime
          /\ ~SpeakCalled =>
                /\ lastSpeechTime' = lastSpeechTime
                /\ notifierLog' = notifierLog]_vars

\* C30 witness: speak was called for a warning exactly SPEECH_RATE_LIMIT_MS
\* after the call before it, and has started the Notifier.
C30_Witness ==
    /\ Len(notifierLog) >= 2
    /\ notifierLog[2].at - notifierLog[1].at = SPEECH_RATE_LIMIT_MS
    /\ lastSpeechTime = notifierLog[2].at
    /\ pc = "speak"

\* The ids of the warnings the Notifier was invoked for in this run
Announced == {notifierLog[i].id : i \in DOMAIN notifierLog} \ {STARTUP}

\* C31: a warning is checked against the dedup set, then offered to the gate,
\* then passed to the Notifier if the gate allows it, and marked last.  While
\* the Notifier call for a warning is in flight the warning is not marked and
\* not in the dedup set, and it is the last entry of the Notifier log; every
\* id that has been marked was offered to the gate before, and every id the
\* Notifier was invoked for was offered to the gate and absent from the set.
C31_MarkAfterSpeakReturns ==
    /\ pc = "speak" =>
          /\ warnings # <<>>
          /\ Head(warnings).id \notin Range(markLog)
          /\ Head(warnings).id \notin Range(spokenAlertIds)
          /\ notifierLog # <<>>
          /\ notifierLog[Len(notifierLog)].id = Head(warnings).id
    /\ Range(markLog) \subseteq handled
    /\ Announced \subseteq handled
    /\ \A i \in DOMAIN notifierLog : notifierLog[i].fresh
    /\ \A id \in Announced :
          id \in Range(markLog) \/ (pc = "speak" /\ Head(warnings).id = id)

\* C31 witness: the Notifier call for the warning b has ended and b is
\* marked, and the call for the warning a, not marked yet, is in flight.
C31_Witness ==
    /\ pc = "speak"
    /\ Head(warnings).id = "a"
    /\ "b" \in Announced
    /\ "b" \in Range(markLog)
    /\ "a" \notin Range(markLog)

\* C32: in a run that no signal ends, every poll cycle comes to the return
\* of pollOnce, every cycle but the last of the MaxCycles is followed by the
\* next one, and the process does not end.
C32_LoopGoesOn ==
    /\ \A k \in 1..MaxCycles :
          (cycle = k /\ pc = "fetch") ~> (cycle = k /\ pc = "sleeping")
    /\ \A k \in 1..(MaxCycles - 1) : (cycle = k) ~> (cycle = k + 1)
    /\ [](pc # "exited")

\* C33: at most one Notifier call is in flight at any time of a run.  The
\* call of the test phrase is in flight only before the first cycle and its
\* first request, and no call is in flight while a cycle fetches, waits,
\* stands between two warnings or sleeps: the call for a warning has ended
\* before the next warning is handled.
C33_OneNotifierCallInFlight ==
    /\ speaking \in {0, 1}
    /\ pc = "startup_speak" => cycle = 0 /\ requests = 0 /\ speaking = 1
    /\ pc \in {"fetch", "backoff", "loop", "sleeping"} => speaking = 0
    /\ pc = "speak" => speaking = 1

\* C33 witness: the call of the test phrase and the call for a first warning
\* have ended, and the call for a second warning is in flight.
C33_Witness ==
    /\ pc = "speak"
    /\ speaking = 1
    /\ Len(notifierLog) = 3
    /\ notifierLog[1].id = STARTUP

\* C34: in a process whose load has read and parsed the file, every id of
\* the file is in the in-memory set; and a markAsSpoken leaves the file as it
\* was (its write failed) or leaves in it the whole in-memory set, the ids
\* whose writes failed before included, and the latter when no read or write
\* has failed.
C34_FileIsPartOfTheSet ==
    /\ [](loadOk => Range(disk.ids) \subseteq Range(spokenAlertIds))
    /\ [][(Len(markLog') = Len(markLog) + 1) =>
            /\ disk' = disk \/ disk' = DiskArray(spokenAlertIds')
            /\ ~ioFailed' => disk' = DiskArray(spokenAlertIds')]_vars

\* C34 witness: the load has succeeded, the write of a first id has failed,
\* and the write of a second id has left both in the file.
C34_Witness ==
    /\ loadOk
    /\ ioFailed
    /\ Len(markLog) = 2
    /\ {"a", "b"} \subseteq Range(spokenAlertIds)
    /\ disk = DiskArray(spokenAlertIds)

\* C35: in a run, once main has loaded the file, every step keeps the ids of
\* the in-memory set and their order; a step changes the set or the file
\* only when it is a markAsSpoken, and the id it adds is the id of a
\* target-category entry of the fetch of the cycle.  The dedup check and the
\* gate, which come before, change neither.
C35_SetGrowsByFetchedWarningsOnly ==
    [][(pc \notin {"start", "exited"} /\ pc' # "exited") =>
          /\ IsPrefix(spokenAlertIds, spokenAlertIds')
          /\ Range(spokenAlertIds') \ Range(spokenAlertIds) \subseteq TargetIds(features)
          /\ (spokenAlertIds' # spokenAlertIds \/ disk' # disk) =>
                /\ Len(markLog') = Len(markLog) + 1
                /\ markLog'[Len(markLog')] \in TargetIds(features)
                /\ Range(spokenAlertIds') =
                      Range(spokenAlertIds) \cup {markLog'[Len(markLog')]}]_vars

\* C35 witness: the load gave the id a; a cycle fetched the warnings a and b,
\* has skipped a and marked b, and has ended with both in the set.
C35_Witness ==
    /\ pc = "sleeping"
    /\ loadOk
    /\ TargetIds(features) = {"a", "b"}
    /\ atCycleStart.ids = <<"a">>
    /\ markLog = <<"b">>
    /\ spokenAlertIds = <<"a", "b">>

\* C36: loadSpokenAlerts never writes the file.  When it reads an array, the
\* in-memory set is afterwards the ids of the array, each once, and nothing
\* else: an id that was in memory and is not in the file is gone.  When the
\* file cannot be read or parsed, the in-memory set is what it was.
C36_LoadReplaces ==
    [][\A readOk \in BOOLEAN :
          Load(readOk) =>
             /\ disk' = disk
             /\ (readOk /\ disk.kind = "array") =>
                   /\ Range(spokenAlertIds') = Range(disk.ids)
                   /\ Len(spokenAlertIds') = Cardinality(Range(disk.ids))
             /\ (~readOk \/ disk.kind \in {"absent", "corrupt"}) =>
                   spokenAlertIds' = spokenAlertIds]_vars

\* C36 witness: the id b was marked and its write failed; a load has then
\* read the file, which holds the id a, and b is no longer in memory.
C36_Witness ==
    /\ loadOk
    /\ "b" \in Range(markLog)
    /\ disk = DiskArray(<<"a">>)
    /\ spokenAlertIds = <<"a">>

C38_MessageFallbacks ==
    pc = "composed" =>
       LET alert == warnings[1] IN
       /\ message.area =
             IF alert.areaDesc \in {Undefined, Null, ""}
             THEN "your area" ELSE alert.areaDesc
       /\ alert.expires \in {Undefined, Null, ""} =>
             message.expiresTime = <<"until further notice">>
       /\ alert.expires \in ValidTimes =>
             /\ Len(message.expiresTime) = 2
             /\ message.expiresTime[2] \notin {"an unknown time", "Invalid Date"}
       /\ alert.expires \notin {Undefined, Null, ""} \cup ValidTimes =>
             message.expiresTime = <<"until ", "an unknown time">>

====
